---- MODULE Spec2Model ----
(***************************************************************************)
(* Connection (askmike/ftx-api-ws): the connection life cycle, the         *)
(* subscription registry, the message router and the liveness monitor,     *)
(* together with the parts of the JavaScript run time their behaviour      *)
(* depends on: promises with their reaction order, the microtask queue     *)
(* that is drained after every event callback, timers and the sockets'     *)
(* open/close events.                                                      *)
(***************************************************************************)
EXTENDS Integers, Sequences, FiniteSets, TLC

VARIABLES
  key,            \* conf.key: Undefined or the API key
  connected,      \* this.connected
  authenticated,  \* this.authenticated
  reconnecting,   \* this.reconnecting
  afterReconnect, \* this.afterReconnect: 0 (undefined) or the reconnect call that made it
  isReady,        \* this.isReady / this.isReadyHook: 0 (constructor) or the reconnect call that made it
  subscriptions,  \* this.subscriptions
  lastMessageAt,  \* this.lastMessageAt
  pingAt,         \* this.pingAt
  pongAt,         \* this.pongAt
  ws,             \* this.ws: 0 (undefined) or the index of a socket
  heartbeat,      \* this.heartbeat: 0 (undefined) or the index of an interval
  sockets,        \* every WebSocket made so far: its readyState
  resolvers,      \* per socket: the connect() call its onopen resolves
  intervals,      \* the setInterval timers that are still running
  nextTick,       \* per socket: when the interval made with it ticks next
  pings,          \* when the ping frames written to this.ws and not yet answered were written
  rtt,            \* the round trip of the latest pong on this.ws, undefined before the first
  reconnects,     \* every reconnect() call so far: where it stands, when its wait(500) ends
  resolved,       \* the promises that are resolved
  waiters,        \* reactions registered on pending promises, in registration order
  wire,           \* every ws.send so far: socket, its readyState then, the text
  emitted,        \* the events emitted by the latest handleWSMessage
  lastFrame,      \* the e.data of the latest handleWSMessage
  outcome,        \* how the latest callback or public call ended
  opens,          \* number of onopen events so far
  calls,          \* number of public calls so far
  frames,         \* number of inbound frames so far
  ticks,          \* number of heartbeat ticks so far
  now             \* the clock, +new Date

vars == << key, connected, authenticated, reconnecting, afterReconnect, isReady,
           subscriptions, lastMessageAt, pingAt, pongAt, ws, heartbeat, sockets,
           resolvers, intervals, nextTick, pings, rtt, reconnects, resolved, waiters,
           wire, emitted, lastFrame, outcome, opens, calls, frames, ticks, now >>

-----------------------------------------------------------------------------
(* Bounds of the model *)

\* the clock at construction, in ms
Epoch == 100000

\* Spec: sockets made, public calls, inbound frames, heartbeat ticks, clock steps
MaxWs == 2
MaxCalls == 2
MaxFrames == 1
MaxTicks == 1
MaxSteps == 1

Limits(sockets_, calls_, frames_, ticks_, steps_) ==
  [ws |-> sockets_, calls |-> calls_, frames |-> frames_, ticks |-> ticks_,
   steps |-> steps_]

Bounds == Limits(MaxWs, MaxCalls, MaxFrames, MaxTicks, MaxSteps)

-----------------------------------------------------------------------------
(* Program constants *)

STALE_TIMEOUT == 2000
PONG_WINDOW == 5000
RECONNECT_WAIT == 500
PING_INTERVAL == 5000

PONG == "{\"type\": \"pong\"}"

\* JavaScript's undefined, and the number fields' undefined and false
Undefined == "undefined"
Undef == 0 - 1
False == 0

SECRET == "S"
Keys == {Undefined, "K"}
Channels == {"ticker", "fills"}
Markets == {Undefined, "BTC-PERP"}
\* the <<market, channel>> pairs callers subscribe to
Pairs == { <<"BTC-PERP", "ticker">>, <<Undefined, "ticker">>, <<Undefined, "fills">> }

-----------------------------------------------------------------------------
(* JSON *)

Quote(x) == "\"" \o x \o "\""

\* a string-valued property: absent from the text when undefined
Val(x) == IF x = Undefined THEN Undefined ELSE Quote(x)

RECURSIVE Members(_, _)
\* the "k":v members of an object, those whose value is undefined left out
Members(obj, first) ==
  IF obj = << >> THEN ""
  ELSE IF obj[1][2] = Undefined THEN Members(Tail(obj), first)
  ELSE (IF first THEN "" ELSE ",") \o Quote(obj[1][1]) \o ":" \o obj[1][2]
       \o Members(Tail(obj), FALSE)

\* JSON.stringify of an object given as its <<name, value>> properties in order
JSONStringify(obj) == "{" \o Members(obj, TRUE) \o "}"

Payload(type, market, channel, data) ==
  [type |-> type, market |-> market, channel |-> channel, data |-> data]

\* the objects the venue sends
InPayloads ==
  { Payload("pong", Undefined, Undefined, Undefined) }
  \cup { Payload("subscribed", pair[1], pair[2], Undefined) : pair \in Pairs }
  \cup { Payload("update", "BTC-PERP", "ticker", "{\"bid\":1}"),
         Payload("update", Undefined, "fills", "{\"bid\":1}"),
         Payload("partial", Undefined, "ticker", "{\"bid\":1}") }

\* the text of an inbound object
FrameText(p) ==
  JSONStringify(<< <<"type", Val(p.type)>>, <<"market", Val(p.market)>>,
                   <<"channel", Val(p.channel)>>, <<"data", p.data>> >>)

FrameTexts == [p \in InPayloads |-> FrameText(p)]

\* the texts that may arrive: the literal pong, every object's text, and text that is no JSON
InFrames == {PONG, "ftx is down"} \cup { FrameTexts[p] : p \in InPayloads }

\* JSON.parse: the object a text denotes; ok is FALSE where JSON.parse throws
JSONParse(text) ==
  IF text = PONG THEN [ok |-> TRUE, value |-> Payload("pong", Undefined, Undefined, Undefined)]
  ELSE IF \E p \in InPayloads : FrameTexts[p] = text
  THEN [ok |-> TRUE, value |-> CHOOSE p \in InPayloads : FrameTexts[p] = text]
  ELSE [ok |-> FALSE, value |-> Payload(Undefined, Undefined, Undefined, Undefined)]

\* crypto.createHmac('sha256', secret).update(msg).digest('hex'), uninterpreted
Hmac(secret, msg) == "hmac(" \o secret \o "," \o msg \o ")"

PingText == JSONStringify(<< <<"op", Quote("ping")>> >>)

SubscribeText(market, channel) ==
  JSONStringify(<< <<"op", Quote("subscribe")>>, <<"market", Val(market)>>,
                   <<"channel", Val(channel)>> >>)

LoginText(k, date, subaccount) ==
  JSONStringify(<< <<"op", Quote("login")>>,
                   <<"args", JSONStringify(<< <<"key", Quote(k)>>,
                       <<"sign", Quote(Hmac(SECRET, ToString(date) \o "websocket_login"))>>,
                       <<"time", ToString(date)>>,
                       <<"subaccount", Val(subaccount)>> >>)>> >>)

\* what callers pass to sendMessage
UserPayloads == { JSONStringify(<< <<"op", Quote("unsubscribe")>>,
                                   <<"channel", Quote("ticker")>> >>) }

-----------------------------------------------------------------------------
(* The state as one record, so that a handler is a function from state to state *)

Cur ==
  [ key |-> key, connected |-> connected, authenticated |-> authenticated,
    reconnecting |-> reconnecting, afterReconnect |-> afterReconnect,
    isReady |-> isReady, subscriptions |-> subscriptions,
    lastMessageAt |-> lastMessageAt, pingAt |-> pingAt, pongAt |-> pongAt,
    ws |-> ws, heartbeat |-> heartbeat, sockets |-> sockets,
    resolvers |-> resolvers, intervals |-> intervals, nextTick |-> nextTick,
    pings |-> pings, rtt |-> rtt, reconnects |-> reconnects,
    resolved |-> resolved, waiters |-> waiters, mq |-> << >>, wire |-> wire,
    emitted |-> emitted, lastFrame |-> lastFrame, outcome |-> outcome,
    opens |-> opens, now |-> now ]

Commit(s) ==
  /\ key' = s.key
  /\ connected' = s.connected
  /\ authenticated' = s.authenticated
  /\ reconnecting' = s.reconnecting
  /\ afterReconnect' = s.afterReconnect
  /\ isReady' = s.isReady
  /\ subscriptions' = s.subscriptions
  /\ lastMessageAt' = s.lastMessageAt
  /\ pingAt' = s.pingAt
  /\ pongAt' = s.pongAt
  /\ ws' = s.ws
  /\ heartbeat' = s.heartbeat
  /\ sockets' = s.sockets
  /\ resolvers' = s.resolvers
  /\ intervals' = s.intervals
  /\ nextTick' = s.nextTick
  /\ pings' = s.pings
  /\ rtt' = s.rtt
  /\ reconnects' = s.reconnects
  /\ resolved' = s.resolved
  /\ waiters' = s.waiters
  /\ wire' = s.wire
  /\ emitted' = s.emitted
  /\ lastFrame' = s.lastFrame
  /\ outcome' = s.outcome
  /\ opens' = s.opens
  /\ now' = s.now

-----------------------------------------------------------------------------
(* Promises and the microtask queue *)

Promise(kind, i, g) == [kind |-> kind, i |-> i, g |-> g]

\* the rest of an async function after an await (k names the function): by and n
\* say which call awaits a connect(), the other fields are the function's arguments
Task(k) ==
  [k |-> k, by |-> "", n |-> 0, text |-> "", tag |-> "", call |-> 0,
   channel |-> "", market |-> ""]

\* resolve p: its reactions are queued as microtasks in registration order
Resolve(s, p) ==
  IF p \in s.resolved THEN s
  ELSE LET On(w) == w.on = p
           Off(w) == w.on # p
           hit == SelectSeq(s.waiters, On)
       IN [s EXCEPT !.resolved = @ \cup {p},
                    !.mq = @ \o [i \in 1..Len(hit) |-> hit[i].task],
                    !.waiters = SelectSeq(@, Off)]

\* await p: the continuation runs in a microtask once p is resolved
Await(s, p, task) ==
  IF p \in s.resolved
  THEN [s EXCEPT !.mq = Append(@, task)]
  ELSE [s EXCEPT !.waiters = Append(@, [on |-> p, task |-> task])]

-----------------------------------------------------------------------------
(* Connection *)

SocketState(s, n) == IF n = 0 THEN "none" ELSE s.sockets[n]

\* this.ws.send(text): the socket written to and its readyState at that moment
\* tag names the call site of the sendMessage, call and at count the onopen events
\* before the sendMessage call and before the write
WsSend(s, text, tag, call, suspended) ==
  [s EXCEPT !.wire = Append(@, [sock |-> s.ws, state |-> SocketState(s, s.ws),
                                text |-> text, tag |-> tag, call |-> call,
                                at |-> s.opens, suspended |-> suspended]),
            !.pings = IF tag = "ping" THEN Append(@, s.now) ELSE @,
            !.outcome.result = "sent"]

\* sendMessage without the reconnecting test: every call made while disconnected waits
SendMessageAlwaysWaits(s, text, tag) ==
  IF ~s.connected
  THEN [Await(s, Promise("afterReconnect", s.afterReconnect, 0),
              [Task("sendMessage") EXCEPT !.text = text, !.tag = tag, !.call = s.opens])
          EXCEPT !.outcome.result = "suspended"]
  ELSE WsSend(s, text, tag, s.opens, FALSE)

\* sendMessage up to its await; tag names the call site
SendMessage(s, text, tag) ==
  IF ~s.connected
  THEN IF ~s.reconnecting
       THEN [s EXCEPT !.outcome.result = "Not connected."]
       ELSE [Await(s, Promise("afterReconnect", s.afterReconnect, 0),
                   [Task("sendMessage") EXCEPT !.text = text, !.tag = tag,
                                               !.call = s.opens])
               EXCEPT !.outcome.result = "suspended"]
  ELSE WsSend(s, text, tag, s.opens, FALSE)

\* sendMessage after its await
SendMessageRest(s, task) == WsSend(s, task.text, task.tag, task.call, TRUE)

\* toId that leaves the market out
toIdChannelOnly(market, channel) == channel

toId(market, channel) ==
  IF market \in {Undefined, ""} THEN channel ELSE market \o "::" \o channel

\* _subscribe(sub) for the i-th subscription
SubscribeSub(s, i, tag) ==
  LET sub == s.subscriptions[i]
      s1 == [s EXCEPT !.subscriptions[i].done = @ + 1]
  IN SendMessage(s1, SubscribeText(sub.market, sub.channel), tag)

\* subscribe without the test for a registered id
SubscribeRestUnchecked(s, channel, market) ==
  LET sub == [id |-> toId(market, channel), channel |-> channel, market |-> market,
              done |-> 0]
      s1 == [s EXCEPT !.subscriptions = Append(@, sub)]
  IN SubscribeSub(s1, Len(s1.subscriptions), "subscribe")

\* subscribe after its await
SubscribeRest(s, channel, market) ==
  LET id == toId(market, channel)
  IN IF \E i \in 1..Len(s.subscriptions) : s.subscriptions[i].id = id
     THEN [s EXCEPT !.outcome.result = "refusing to channel subscribe twice"]
     ELSE LET sub == [id |-> id, channel |-> channel, market |-> market, done |-> 0]
              s1 == [s EXCEPT !.subscriptions = Append(@, sub)]
          IN SubscribeSub(s1, Len(s1.subscriptions), "subscribe")

\* subscribe up to its await
Subscribe(s, channel, market) ==
  IF ~s.connected
  THEN IF ~s.reconnecting
       THEN [s EXCEPT !.outcome.result = "Not connected."]
       ELSE [Await(s, Promise("afterReconnect", s.afterReconnect, 0),
                   [Task("subscribe") EXCEPT !.channel = channel, !.market = market,
                                             !.call = s.opens])
               EXCEPT !.outcome.result = "suspended"]
  ELSE SubscribeRest(s, channel, market)

\* connect up to its await, _connect included; by and n name the caller that awaits it
Connect(s, by, n) ==
  LET task == [Task("connect") EXCEPT !.by = by, !.n = n]
  IN IF s.connected
     THEN [s EXCEPT !.mq = Append(@, task)]
     ELSE LET id == Len(s.sockets) + 1
          IN [s EXCEPT !.sockets = Append(@, "connecting"),
                       !.resolvers = Append(@, task),
                       !.ws = id,
                       !.heartbeat = id,
                       !.intervals = @ \cup {id},
                       !.nextTick = Append(@, s.now + PING_INTERVAL),
                       !.pings = << >>,
                       !.rtt = Undef]

\* authenticate after its await
AuthenticateRest(s) ==
  LET date == s.now
      s1 == SendMessage(s, LoginText(s.key, date, Undefined), "login")
  IN [s1 EXCEPT !.authenticated = TRUE]

\* authenticate up to its await
Authenticate(s) ==
  IF ~s.connected THEN Connect(s, "authenticate", 0) ELSE AuthenticateRest(s)

\* connect after its await; its caller's continuation is queued when it returns
ConnectRest(s, task) ==
  LET s1 == IF s.key # Undefined THEN Authenticate(s) ELSE s
  IN CASE task.by = "reconnect" ->
            [s1 EXCEPT !.mq = Append(@, [Task("reconnect") EXCEPT !.n = task.n])]
       [] task.by = "authenticate" ->
            [s1 EXCEPT !.mq = Append(@, Task("authenticate"))]
       [] OTHER -> s1

\* terminate
Terminate(s) ==
  IF s.ws = 0
  THEN [s EXCEPT !.outcome.result = "TypeError"]
  ELSE [s EXCEPT !.sockets[s.ws] = IF @ \in {"connecting", "open"} THEN "closing" ELSE @,
                 !.authenticated = FALSE,
                 !.connected = FALSE]

\* reconnect that leaves the reconnecting flag alone
ReconnectUnflagged(s) ==
  LET c == Len(s.reconnects) + 1
  IN [s EXCEPT !.pingAt = False,
               !.pongAt = False,
               !.afterReconnect = c,
               !.isReady = c,
               !.reconnects = Append(@, [at |-> "wait", due |-> s.now + RECONNECT_WAIT])]

\* reconnect up to its first await
Reconnect(s) ==
  LET c == Len(s.reconnects) + 1
  IN [s EXCEPT !.reconnecting = TRUE,
               !.pingAt = False,
               !.pongAt = False,
               !.afterReconnect = c,
               !.isReady = c,
               !.reconnects = Append(@, [at |-> "wait", due |-> s.now + RECONNECT_WAIT])]

RECURSIVE Replay(_, _)
\* this.subscriptions.forEach(sub => this._subscribe(sub)), from the i-th on
Replay(s, i) ==
  IF i > Len(s.subscriptions) THEN s ELSE Replay(SubscribeSub(s, i, "replay"), i + 1)

\* reconnect after await this.connect()
ReconnectRest(s, c) ==
  LET s1 == Resolve(s, Promise("afterReconnect", c, 0))
      s2 == Resolve(s1, Promise("isReady", s1.isReady, 0))
      s3 == Replay(s2, 1)
  IN [s3 EXCEPT !.reconnects[c].at = "done"]

\* ws.onopen of socket n
OnOpen(s, n) ==
  LET s1 == [s EXCEPT !.connected = TRUE, !.sockets[n] = "open", !.opens = @ + 1]
      s2 == Resolve(s1, Promise("isReady", s1.isReady, 0))
  IN [s2 EXCEPT !.mq = Append(@, s.resolvers[n])]

\* ws.onclose of socket n
OnClose(s, n) ==
  Reconnect([s EXCEPT !.sockets[n] = "closed",
                      !.authenticated = FALSE,
                      !.connected = FALSE,
                      !.intervals = @ \ {s.heartbeat}])

\* a stale test that also fires when no pong followed the ping
StaleOrSilent(s) ==
  /\ s.pingAt \notin {Undef, False}
  /\ \/ s.pongAt \in {Undef, False}
     \/ s.pongAt <= s.pingAt
     \/ s.pongAt - s.pingAt > STALE_TIMEOUT

\* this.pingAt && this.pongAt > this.pingAt && this.pongAt - this.pingAt > STALE_TIMEOUT
Stale(s) ==
  /\ s.pingAt \notin {Undef, False}
  /\ s.pongAt # Undef
  /\ s.pongAt > s.pingAt
  /\ s.pongAt - s.pingAt > STALE_TIMEOUT

\* ping
Ping(s) ==
  IF Stale(s) THEN Terminate(s)
  ELSE SendMessage([s EXCEPT !.pingAt = s.now], PingText, "ping")

\* the pong test without the window
IsPongAnyTime(s, data) == data = PONG

\* e.data === PONG && this.lastMessageAt - this.pingAt < 5000
IsPong(s, data) ==
  /\ data = PONG
  /\ s.pingAt # Undef
  /\ s.lastMessageAt - s.pingAt < PONG_WINDOW

RECURSIVE AcknowledgeByChannel(_, _, _)
\* the 'subscribed' branch matching on the channel alone
AcknowledgeByChannel(s, payload, i) ==
  IF i > Len(s.subscriptions) THEN s
  ELSE LET sub == s.subscriptions[i]
           s1 == IF sub.channel = payload.channel
                 THEN Resolve(s, Promise("done", i, sub.done))
                 ELSE s
       IN AcknowledgeByChannel(s1, payload, i + 1)

RECURSIVE Acknowledge(_, _, _)
\* the forEach of the 'subscribed' branch, from the i-th subscription on
Acknowledge(s, payload, i) ==
  IF i > Len(s.subscriptions) THEN s
  ELSE LET sub == s.subscriptions[i]
           s1 == IF sub.market = payload.market /\ sub.channel = payload.channel
                 THEN Resolve(s, Promise("done", i, sub.done))
                 ELSE s
       IN Acknowledge(s1, payload, i + 1)

\* handleWSMessage
HandleWSMessage(s, data) ==
  LET s1 == [s EXCEPT !.lastMessageAt = s.now]
      parsed == JSONParse(data)
      payload == parsed.value
  IN IF IsPong(s1, data) THEN [s1 EXCEPT !.pongAt = s1.lastMessageAt]
     ELSE IF ~parsed.ok THEN [s1 EXCEPT !.outcome.result = "TypeError"]
     ELSE IF payload.type = "subscribed" THEN Acknowledge(s1, payload, 1)
     ELSE IF payload.type \in {"update", "partial"}
     THEN [s1 EXCEPT !.emitted = Append(@, [topic |-> toId(payload.market, payload.channel),
                                            data |-> payload.data])]
     ELSE [s1 EXCEPT !.outcome.result = "unhandled WS event"]

-----------------------------------------------------------------------------
(* The event loop: callbacks run one at a time, and the microtask queue is     *)
(* drained after each; s.mq is the queue while a callback runs                 *)

\* a caller's code after `await connection.isReady`
CallerRest(s, task) == SendMessage(s, task.text, "caller")

\* one microtask
RunTask(s, task) ==
  CASE task.k = "connect" -> ConnectRest(s, task)
    [] task.k = "reconnect" -> ReconnectRest(s, task.n)
    [] task.k = "authenticate" -> AuthenticateRest(s)
    [] task.k = "sendMessage" -> SendMessageRest(s, task)
    [] task.k = "subscribe" -> SubscribeRest(s, task.channel, task.market)
    [] OTHER -> CallerRest(s, task)

RECURSIVE Drain(_)
\* run the microtasks, those they queue included, until none is left
Drain(s) ==
  IF s.mq = << >> THEN s
  ELSE Drain(RunTask([s EXCEPT !.mq = Tail(@)], Head(s.mq)))

\* the state a callback starts in
Outcome(op, market, channel, result) ==
  [op |-> op, market |-> market, channel |-> channel, result |-> result]

\* op names the callback or the public call, with subscribe's arguments
Begin(op, market, channel) ==
  [Cur EXCEPT !.outcome = Outcome(op, market, channel, "ok"), !.emitted = << >>,
              !.lastFrame = ""]

Start(op) == Begin(op, "", "")

\* a callback that ends in state s, and the microtasks after it
Callback(s, b) ==
  LET t == Drain(s)
  IN Len(t.sockets) <= b.ws /\ Commit(t)

Call(b) == calls < b.calls /\ calls' = calls + 1 /\ UNCHANGED << frames, ticks >>

(* Public calls, made from the caller's own callbacks *)

CallConnect(b) == Call(b) /\ Callback(Connect(Start("connect"), "caller", 0), b)

\* the caller of sample.js: connect() once, on a new Connection
FirstConnect(b) == sockets = << >> /\ CallConnect(b)

CallTerminate(b) == Call(b) /\ Callback(Terminate(Start("terminate")), b)

CallAuthenticate(b) == Call(b) /\ key # Undefined /\ Callback(Authenticate(Start("authenticate")), b)

CallSendMessage(b) ==
  /\ Call(b)
  /\ \E text \in UserPayloads : Callback(SendMessage(Start("sendMessage"), text, "caller"), b)

CallSubscribe(b) ==
  /\ Call(b)
  /\ \E pair \in Pairs :
       Callback(Subscribe(Begin("subscribe", pair[1], pair[2]), pair[2], pair[1]), b)

\* await connection.isReady, then sendMessage
AwaitIsReady(b) ==
  /\ Call(b)
  /\ \E text \in UserPayloads :
       Callback(Await(Start("isReady"), Promise("isReady", isReady, 0),
                      [Task("callerSend") EXCEPT !.text = text, !.call = opens]), b)

(* Socket events *)

SocketOpen(b) ==
  /\ \E n \in 1..Len(sockets) :
       /\ sockets[n] = "connecting"
       /\ Callback(OnOpen(Start("onopen"), n), b)
  /\ UNCHANGED << calls, frames, ticks >>

SocketClose(b) ==
  /\ \E n \in 1..Len(sockets) :
       /\ sockets[n] \in {"connecting", "open", "closing"}
       /\ Callback(OnClose(Start("onclose"), n), b)
  /\ UNCHANGED << calls, frames, ticks >>

\* the venue's pong answers the oldest ping that has none yet
Answered(s, data) ==
  IF data # PONG THEN s
  ELSE IF s.pings = << >> THEN [s EXCEPT !.rtt = 0]
  ELSE [s EXCEPT !.rtt = s.now - Head(s.pings), !.pings = Tail(@)]

SocketMessage(b) ==
  /\ frames < b.frames
  /\ \E n \in 1..Len(sockets), data \in InFrames :
       /\ sockets[n] = "open"
       /\ Callback(HandleWSMessage(Answered([Start("onmessage") EXCEPT !.lastFrame = data],
                                            data), data), b)
  /\ frames' = frames + 1
  /\ UNCHANGED << calls, ticks >>

(* Timers *)

\* a tick of a setInterval(this.ping, 5 * 1000) that was not cleared
HeartbeatTick(b) ==
  /\ ticks < b.ticks
  /\ \E i \in intervals :
       /\ nextTick[i] <= now
       /\ Callback(Ping([Start("ping") EXCEPT !.nextTick[i] = @ + PING_INTERVAL]), b)
  /\ ticks' = ticks + 1
  /\ UNCHANGED << calls, frames >>

\* the wait(500) of the c-th reconnect() ends: await this.connect()
ReconnectTimer(b) ==
  /\ \E c \in 1..Len(reconnects) :
       /\ reconnects[c].at = "wait"
       /\ reconnects[c].due <= now
       /\ Callback(Connect([Start("reconnect") EXCEPT !.reconnects[c].at = "connect"],
                           "reconnect", c), b)
  /\ UNCHANGED << calls, frames, ticks >>

\* everything but the clock
Still ==
  UNCHANGED << key, connected, authenticated, reconnecting, afterReconnect,
               isReady, subscriptions, lastMessageAt, pingAt, pongAt, ws,
               heartbeat, sockets, resolvers, intervals, nextTick, pings, rtt,
               reconnects, resolved, waiters, wire, emitted, lastFrame, outcome,
               opens, calls, frames, ticks >>

\* time passes, not beyond the moment a wait(500) ends
Advance(b) ==
  /\ now + RECONNECT_WAIT <= Epoch + b.steps * RECONNECT_WAIT
  /\ \A c \in 1..Len(reconnects) :
       reconnects[c].at = "wait" => now + RECONNECT_WAIT <= reconnects[c].due
  /\ now' = now + RECONNECT_WAIT
  /\ Still

\* the timers that are set: the wait(500) of the reconnects, the running intervals
Timers ==
  { reconnects[c].due : c \in { k \in 1..Len(reconnects) : reconnects[k].at = "wait" } }
  \cup { nextTick[i] : i \in intervals }

\* the moments of a heartbeat period at which the venue's answers arrive
Moments == {1000, 2500, PING_INTERVAL}

Min(S) == CHOOSE x \in S : \A y \in S : x <= y

\* time passes to the next moment or to the next timer's, whichever is first; a
\* timer fires at its moment, and the clock is read from the first connect() on
Elapse(b) ==
  /\ sockets # << >>
  /\ now < Epoch + b.ticks * PING_INTERVAL
  /\ \A t \in Timers : now < t
  /\ LET start == now - ((now - Epoch) % PING_INTERVAL)
         ahead == { start + m : m \in Moments } \cup Timers
     IN now' = Min({ t \in ahead : t > now })
  /\ Still

Init ==
  /\ key \in Keys
  /\ connected = FALSE
  /\ authenticated = FALSE
  /\ reconnecting = FALSE
  /\ afterReconnect = 0
  /\ isReady = 0
  /\ subscriptions = << >>
  /\ lastMessageAt = 0
  /\ pingAt = Undef
  /\ pongAt = Undef
  /\ ws = 0
  /\ heartbeat = 0
  /\ sockets = << >>
  /\ resolvers = << >>
  /\ intervals = {}
  /\ nextTick = << >>
  /\ pings = << >>
  /\ rtt = Undef
  /\ reconnects = << >>
  /\ resolved = {}
  /\ waiters = << >>
  /\ wire = << >>
  /\ emitted = << >>
  /\ lastFrame = ""
  /\ outcome = Outcome("constructor", "", "", "ok")
  /\ opens = 0
  /\ calls = 0
  /\ frames = 0
  /\ ticks = 0
  /\ now = Epoch

Next ==
  \/ CallConnect(Bounds)
  \/ CallTerminate(Bounds)
  \/ CallAuthenticate(Bounds)
  \/ CallSendMessage(Bounds)
  \/ CallSubscribe(Bounds)
  \/ AwaitIsReady(Bounds)
  \/ SocketOpen(Bounds)
  \/ SocketClose(Bounds)
  \/ SocketMessage(Bounds)
  \/ HeartbeatTick(Bounds)
  \/ ReconnectTimer(Bounds)
  \/ Advance(Bounds)
  \/ Elapse(Bounds)

Spec == Init /\ [][Next]_vars

-----------------------------------------------------------------------------
(* The reconnect cycle of a caller that connects once: no inbound frames, no    *)
(* heartbeat                                                                   *)

ReconnectMaxWs == 3
ReconnectMaxCalls == 3
ReconnectMaxSteps == 2

ReconnectBounds == Limits(ReconnectMaxWs, ReconnectMaxCalls, 0, 0, ReconnectMaxSteps)

NextReconnect ==
  \/ FirstConnect(ReconnectBounds)
  \/ CallTerminate(ReconnectBounds)
  \/ CallSendMessage(ReconnectBounds)
  \/ CallSubscribe(ReconnectBounds)
  \/ AwaitIsReady(ReconnectBounds)
  \/ SocketOpen(ReconnectBounds)
  \/ SocketClose(ReconnectBounds)
  \/ ReconnectTimer(ReconnectBounds)
  \/ Advance(ReconnectBounds)

SpecReconnect == Init /\ [][NextReconnect]_vars

(* The public calls that send, through a close and a reconnect *)

CallsMaxWs == 2
CallsMaxCalls == 3
CallsMaxSteps == 1

CallsBounds == Limits(CallsMaxWs, CallsMaxCalls, 0, 0, CallsMaxSteps)

NextCalls ==
  \/ CallConnect(CallsBounds)
  \/ CallTerminate(CallsBounds)
  \/ CallSendMessage(CallsBounds)
  \/ CallSubscribe(CallsBounds)
  \/ SocketOpen(CallsBounds)
  \/ SocketClose(CallsBounds)
  \/ ReconnectTimer(CallsBounds)
  \/ Advance(CallsBounds)

SpecCalls == Init /\ [][NextCalls]_vars

(* The message router on a connection with subscriptions *)

RouterMaxWs == 1
RouterMaxCalls == 3
RouterMaxFrames == 1

RouterBounds == Limits(RouterMaxWs, RouterMaxCalls, RouterMaxFrames, 0, 0)

NextRouter ==
  \/ CallConnect(RouterBounds)
  \/ CallSubscribe(RouterBounds)
  \/ SocketOpen(RouterBounds)
  \/ SocketClose(RouterBounds)
  \/ SocketMessage(RouterBounds)

SpecRouter == Init /\ [][NextRouter]_vars

(* The liveness monitor of a caller that connects once: ticks, pongs, closes *)

MonitorMaxWs == 2
MonitorMaxFrames == 1
MonitorMaxTicks == 3

MonitorBounds == Limits(MonitorMaxWs, 1, MonitorMaxFrames, MonitorMaxTicks, 0)

NextMonitor ==
  \/ FirstConnect(MonitorBounds)
  \/ SocketOpen(MonitorBounds)
  \/ SocketClose(MonitorBounds)
  \/ SocketMessage(MonitorBounds)
  \/ HeartbeatTick(MonitorBounds)
  \/ ReconnectTimer(MonitorBounds)
  \/ Elapse(MonitorBounds)

SpecMonitor == Init /\ [][NextMonitor]_vars

(* The monitor over two heartbeat periods, with any connect() calls *)

PongMaxWs == 2
PongMaxCalls == 2
PongMaxFrames == 1
PongMaxTicks == 2

PongBounds == Limits(PongMaxWs, PongMaxCalls, PongMaxFrames, PongMaxTicks, 0)

NextPong ==
  \/ CallConnect(PongBounds)
  \/ SocketOpen(PongBounds)
  \/ SocketClose(PongBounds)
  \/ SocketMessage(PongBounds)
  \/ HeartbeatTick(PongBounds)
  \/ ReconnectTimer(PongBounds)
  \/ Elapse(PongBounds)

SpecPong == Init /\ [][NextPong]_vars

-----------------------------------------------------------------------------
(* Claims *)

Live(n) == sockets[n] \in {"connecting", "open"}

\* C1: a payload passed to sendMessage while connected is false and reconnecting
\* is true is written only to an open socket, and only after an onopen that
\* follows the call.
C1_SuspendedSendWaitsForOpen ==
  \A i \in 1..Len(wire) :
    wire[i].suspended => wire[i].state = "open" /\ wire[i].at > wire[i].call

\* C2: a sendMessage that suspended during a reconnect attempt has completed once
\* a later attempt has opened its socket and finished reconnect(), also when the
\* attempt it suspended in closed before opening.
C2_SuspendedSendCompletes ==
  \A i \in 1..Len(waiters) :
    waiters[i].task.k = "sendMessage" =>
      ~ \E c \in 1..Len(reconnects) : c > waiters[i].on.i /\ reconnects[c].at = "done"

ReplayedOn(n, a) ==
  LET Is(f) == f.tag = "replay" /\ f.sock = n /\ f.at = a
  IN SelectSeq(wire, Is)

\* C3: after a reopening the registered subscriptions are re-sent on the socket
\* once each, in registration order, and no frame of a caller's sendMessage or
\* subscribe is written on it before them.
C3_ReplayBeforeCallerSends ==
  /\ \A n \in 1..Len(sockets), a \in 1..opens :
       LET r == ReplayedOn(n, a)
       IN /\ Len(r) <= Len(subscriptions)
          /\ \A k \in 1..Len(r) :
               r[k].text = SubscribeText(subscriptions[k].market, subscriptions[k].channel)
  /\ \A i, j \in 1..Len(wire) :
       (i < j /\ wire[j].tag = "replay" /\ wire[i].sock = wire[j].sock
              /\ wire[i].at = wire[j].at)
         => wire[i].tag \notin {"caller", "subscribe"}

\* C4: sendMessage and subscribe called while connected and reconnecting are both
\* false fail with 'Not connected.', write nothing and leave the flags, the
\* timestamps and the registry as they were.
C4_NotConnectedFails ==
  [][ (calls' = calls + 1 /\ outcome'.op \in {"sendMessage", "subscribe"}
         /\ ~connected /\ ~reconnecting)
      => /\ outcome'.result = "Not connected."
         /\ wire' = wire
         /\ subscriptions' = subscriptions
         /\ waiters' = waiters
         /\ << connected', authenticated', reconnecting' >>
              = << connected, authenticated, reconnecting >>
         /\ << lastMessageAt', pingAt', pongAt' >> = << lastMessageAt, pingAt, pongAt >>
    ]_vars

C4_Witness ==
  /\ outcome = Outcome("subscribe", "BTC-PERP", "ticker", "Not connected.")
  /\ \E n \in 1..Len(sockets) : sockets[n] = "closing"
  /\ subscriptions = << >>

Registered(market, channel) ==
  \E i \in 1..Len(subscriptions) :
    subscriptions[i].market = market /\ subscriptions[i].channel = channel

\* C5: the registry never holds two entries for one (market, channel); a pair's
\* subscribe frame is written by at most one subscribe call, every other
\* subscribe frame being a replay; and a subscribe call for a registered pair
\* adds no entry and writes nothing.
C5_OneEntryPerPair ==
  /\ [] /\ \A i, j \in 1..Len(subscriptions) :
             (subscriptions[i].market = subscriptions[j].market
                /\ subscriptions[i].channel = subscriptions[j].channel) => i = j
        /\ \A i, j \in 1..Len(wire) :
             (wire[i].tag = "subscribe" /\ wire[j].tag = "subscribe"
                /\ wire[i].text = wire[j].text) => i = j
        /\ \A i \in 1..Len(wire) :
             (\E pair \in Pairs : wire[i].text = SubscribeText(pair[1], pair[2]))
               => wire[i].tag \in {"subscribe", "replay"}
  /\ [][ (calls' = calls + 1 /\ outcome'.op = "subscribe"
            /\ Registered(outcome'.market, outcome'.channel))
         => subscriptions' = subscriptions /\ wire' = wire
       ]_vars

\* two subscribe calls for one pair were suspended together and the reconnect
\* released them: one entry, the second call refused
C5_Witness ==
  /\ outcome.op = "onopen"
  /\ outcome.result = "refusing to channel subscribe twice"
  /\ Len(subscriptions) = 1
  /\ Len(wire) = 1

AckText(market, channel) == FrameTexts[Payload("subscribed", market, channel, Undefined)]

\* the completion signals of the subscriptions registered for (market, channel)
Done(market, channel) ==
  { Promise("done", i, subscriptions[i].done) :
      i \in { k \in 1..Len(subscriptions) :
                subscriptions[k].market = market /\ subscriptions[k].channel = channel } }

\* C6: a 'subscribed' frame resolves the completion signal of the subscription
\* with its (market, channel) and of no other, emits no event and changes no
\* connection flag.
C6_AckResolvesItsSubscription ==
  [][ \A pair \in Pairs :
        lastFrame' = AckText(pair[1], pair[2])
        => /\ resolved' = resolved \cup Done(pair[1], pair[2])
           /\ emitted' = << >>
           /\ subscriptions' = subscriptions
           /\ << connected', authenticated', reconnecting' >>
                = << connected, authenticated, reconnecting >>
    ]_vars

\* two subscriptions on one channel, the frame acknowledged one of them
C6_Witness ==
  /\ lastFrame = AckText("BTC-PERP", "ticker")
  /\ Registered("BTC-PERP", "ticker") /\ Registered(Undefined, "ticker")
  /\ \E i, j \in 1..Len(subscriptions) :
       /\ Promise("done", i, subscriptions[i].done) \in resolved
       /\ Promise("done", j, subscriptions[j].done) \notin resolved

\* C7: the completion signal subscribe() returned (the first one made for the
\* subscription) is resolved by the 'subscribed' frame that answers a replay.
C7_AckAfterReplayReleasesCaller ==
  \A i \in 1..Len(subscriptions) :
    (lastFrame = AckText(subscriptions[i].market, subscriptions[i].channel)
       /\ subscriptions[i].done > 1)
    => Promise("done", i, 1) \in resolved

\* C8: a frame that is no JSON raises no error out of handleWSMessage.
C8_BadJsonNeverThrows ==
  (outcome.op = "onmessage" /\ ~JSONParse(lastFrame).ok) => outcome.result # "TypeError"

\* C9: an 'update' or 'partial' frame causes one emission, on channel when it has no
\* market and on market + '::' + channel otherwise, carrying its data; any other
\* frame causes none.
C9_UpdateEmitsOnTopic ==
  /\ \A p \in InPayloads :
       lastFrame = FrameTexts[p] =>
         emitted = IF p.type \in {"update", "partial"}
                   THEN << [topic |-> IF p.market = Undefined THEN p.channel
                                      ELSE p.market \o "::" \o p.channel,
                            data |-> p.data] >>
                   ELSE << >>
  /\ (outcome.op # "onmessage" \/ lastFrame \in {PONG, "ftx is down"}) => emitted = << >>

C9_Witness ==
  /\ lastFrame = FrameTexts[Payload("update", "BTC-PERP", "ticker", "{\"bid\":1}")]
  /\ emitted = << [topic |-> "BTC-PERP::ticker", data |-> "{\"bid\":1}"] >>

\* C10: at most one socket that is neither closed nor terminated exists.
C10_OneLiveSocket ==
  Cardinality({ n \in 1..Len(sockets) : Live(n) }) <= 1

\* C11: connect() called while connected is true makes no socket, starts no
\* timer, writes no frame and changes no field of the connection.
C11_ConnectWhileConnectedIsNoOp ==
  [][ (calls' = calls + 1 /\ outcome'.op = "connect" /\ connected)
      => /\ sockets' = sockets
         /\ intervals' = intervals
         /\ wire' = wire
         /\ << connected', authenticated', reconnecting', ws', heartbeat' >>
              = << connected, authenticated, reconnecting, ws, heartbeat >>
    ]_vars

\* C12: every close event clears connected and authenticated, leaves no interval
\* running and starts a reconnect whose wait ends 500 ms later; when that wait
\* ends a new socket is made.
C12_CloseStartsReconnect ==
  /\ [][ outcome'.op = "onclose" /\ Len(reconnects') > Len(reconnects)
         => /\ ~connected' /\ ~authenticated'
            /\ intervals' = {}
            /\ reconnects' = Append(reconnects, [at |-> "wait", due |-> now + RECONNECT_WAIT])
       ]_vars
  /\ [][ (\E c \in 1..Len(reconnects) : reconnects[c].at = "wait" /\ reconnects'[c].at # "wait")
         => Len(sockets') = Len(sockets) + 1
       ]_vars

\* a last-ping timestamp is set, the last pong is later, by more than 2000 ms
Overdue ==
  /\ pingAt \notin {Undef, False}
  /\ pongAt \notin {Undef, False}
  /\ pongAt > pingAt
  /\ pongAt - pingAt > STALE_TIMEOUT

\* C13: a tick in an overdue state terminates the socket, sends nothing and
\* leaves pingAt; every other tick sets pingAt to the clock, writes one ping
\* frame and terminates nothing.
C13_TickTerminatesOrPings ==
  [][ ticks' = ticks + 1
      => IF Overdue
         THEN /\ sockets'[ws] \in {"closing", "closed"}
              /\ ~connected'
              /\ wire' = wire
              /\ pingAt' = pingAt
         ELSE /\ pingAt' = now
              /\ Len(wire') = Len(wire) + 1
              /\ wire'[Len(wire')].text = PingText
              /\ sockets' = sockets
    ]_vars

\* C14: once the pong that answers a ping has arrived more than 2000 ms after
\* that ping was written, the tick that follows terminates the socket.
C14_LatePongTerminates ==
  (outcome.op = "ping" /\ rtt # Undef /\ rtt > STALE_TIMEOUT)
    => (ws # 0 /\ sockets[ws] \in {"closing", "closed"})

\* a literal pong that arrives less than 5000 ms after a last-ping timestamp
InWindow ==
  /\ lastFrame' = PONG
  /\ pingAt \notin {Undef, False}
  /\ now - pingAt < PONG_WINDOW

\* C15: a literal pong inside the window sets pongAt to the arrival time, reaches
\* no router branch, emits nothing and resolves nothing; no other frame changes
\* pongAt, and nothing else does but the reset in reconnect.
C15_PongInWindowIsConsumed ==
  /\ [][ frames' = frames + 1
         => IF InWindow
            THEN /\ pongAt' = now
                 /\ outcome'.result = "ok"
                 /\ emitted' = << >>
                 /\ resolved' = resolved
            ELSE pongAt' = pongAt
       ]_vars
  /\ [][ (frames' = frames /\ pongAt' # pongAt)
         => /\ outcome'.op = "onclose"
            /\ pongAt' = False /\ pingAt' = False
       ]_vars

\* a pong was consumed 2500 ms after the ping
C15_Witness ==
  /\ lastFrame = PONG
  /\ pongAt = now
  /\ pingAt \notin {Undef, False}
  /\ now - pingAt = 2500

\* C17: no tick happens while connected is false.
C17_TicksOnlyWhileConnected ==
  [][ ticks' = ticks + 1 => connected ]_vars

\* C16: a caller that awaits the readiness signal is released by the next
\* onopen: none is still waiting once a socket has opened after it began.
C16_OpenReleasesWaiters ==
  \A i \in 1..Len(waiters) :
    waiters[i].task.k = "callerSend" => opens = waiters[i].task.call

\* a tick that terminates a socket
Terminating == ticks' = ticks + 1 /\ sockets' # sockets

\* C18: a tick terminates the socket only if a pong was consumed after the last
\* ping, less than 5000 ms and more than 2000 ms after it; while no pong has
\* arrived on the socket every tick sets pingAt to the clock and terminates
\* nothing.
C18_NoPongNoTermination ==
  /\ [][ Terminating
         => /\ rtt # Undef
            /\ pingAt \notin {Undef, False}
            /\ pongAt - pingAt > STALE_TIMEOUT
            /\ pongAt - pingAt < PONG_WINDOW
       ]_vars
  /\ [][ (ticks' = ticks + 1 /\ rtt = Undef)
         => /\ sockets' = sockets
            /\ connected' = connected
            /\ pingAt' = now
            /\ (connected => /\ Len(wire') = Len(wire) + 1
                             /\ wire'[Len(wire')].text = PingText)
       ]_vars

\* two pings were written and no pong came: the socket is still open
C18_Witness ==
  /\ outcome.op = "ping"
  /\ rtt = Undef
  /\ Len(pings) = 2
  /\ connected /\ sockets[ws] = "open"

\* C19: with a key, every replayed subscribe frame and every frame of a send that
\* was suspended on afterReconnect comes after a login frame written to the same
\* socket while it was open; without a key no login frame is written and
\* authenticated stays false.
C19_LoginBeforeReplay ==
  /\ key # Undefined =>
       \A j \in 1..Len(wire) :
         (wire[j].tag = "replay" \/ wire[j].suspended)
           => \E i \in 1..(j - 1) :
                /\ wire[i].tag = "login"
                /\ wire[i].sock = wire[j].sock
                /\ wire[i].state = "open"
  /\ key = Undefined =>
       /\ ~authenticated
       /\ \A j \in 1..Len(wire) : wire[j].tag # "login"

\* C20: reconnecting is false until the first close event and true ever after,
\* and once it is true no call fails with 'Not connected.'.
C20_ReconnectingIsMonotone ==
  /\ [] /\ reconnecting <=> (\E n \in 1..Len(sockets) : sockets[n] = "closed")
        /\ reconnecting => outcome.result # "Not connected."
  /\ [][ reconnecting => reconnecting' ]_vars

\* after a completed reconnect and a terminate() a send still went through the
\* reconnecting branch
C20_Witness ==
  /\ reconnecting /\ ~connected
  /\ \E c \in 1..Len(reconnects) : reconnects[c].at = "done"
  /\ outcome.op = "sendMessage"
  /\ outcome.result = "sent"

====
